---- MODULE Spec2Model ----
(***************************************************************************)
(* Host-side harness of Lab_GPU: src/main_sum.cpp (array reduction) and    *)
(* src/main_matrix_multiplication.cpp (dense matrix product).              *)
(*                                                                         *)
(* The compute kernels, the timer and the random generator are outside    *)
(* the two files; they appear here as nondeterministic choices over the    *)
(* results their interface allows.                                         *)
(*                                                                         *)
(* float/double values are exact rationals <<num, den>> with den > 0;      *)
(* <<0, 0>> is NaN.  The values used are small ratios whose comparisons    *)
(* come out the same in double arithmetic; the one that meets the bound    *)
(* exactly, (1/2)/50 against 0.01, is an equality of doubles as well.      *)
(***************************************************************************)
EXTENDS Integers, Sequences, FiniteSets, TLC

VARIABLES
    prog,              \* which main() runs: "sum", "mm"; "omp"/"validator" for the function specs
    pc,                \* position of the control thread
    exitStatus,        \* "none" while running, "0", "1", "terminate" (uncaught exception)
    out,               \* lines written to std::cout / std::cerr: <<label, kind>>
    shown,             \* the latest throughput printed: [value, lapAvg]
    as, bs, cs,        \* host vectors
    cs_cpu_reference,  \* host copy of the CPU product
    reference_sum,     \* unsigned int reference_sum
    i,                 \* index of the generation loop of main_sum
    sum,               \* unsigned int sum of the CPU blocks
    result,            \* unsigned int result of the GPU blocks
    diff_sum,          \* double diff_sum of the latest validation
    diff_avg,          \* double diff_avg of the latest validation
    iter,              \* trial index of the current block
    variant,           \* index of the current GPU block, 0 before the first
    laps,              \* number of laps of the block's timer t
    as_gpu, bs_gpu, cs_gpu, result_gpu,   \* device buffers
    fresh,             \* history: device buffers written from host since the latest launch
    readBack,          \* history: output buffer read to host since the latest launch
    lastLaunch,        \* history: [variant, iter, fresh, prevRead] at the latest launch
    uploads,           \* history: number of host-to-device writes per buffer
    nValid,            \* history: validations made in the current block
    validated,         \* history: GPU blocks of the matrix program validated so far
    withinTol,         \* history: every validated block had diff_avg <= 0.01
    trialsOk,          \* history: trials whose sum equalled reference_sum
    ompAssign,         \* omp spec: thread of each loop index
    ompOrder,          \* omp spec: order in which the partial sums are combined
    corrupt            \* validator spec: [idx, up] of the perturbed element

vars == <<prog, pc, exitStatus, out, shown, as, bs, cs, cs_cpu_reference,
          reference_sum, i, sum, result, diff_sum, diff_avg, iter, variant, laps,
          as_gpu, bs_gpu, cs_gpu, result_gpu, fresh, readBack, lastLaunch,
          uploads, nValid, validated, withinTol, trialsOk, ompAssign,
          ompOrder, corrupt>>

(***************************************************************************)
(* Sizes.  The programs fix n = 10^8 and 1024 x 1024 matrices and use a    *)
(* 32-bit accumulator; the arrays of the model are scaled down, and the    *)
(* width of unsigned int with them, so that every array can be enumerated. *)
(***************************************************************************)
UintBits == 3                       \* width of unsigned int in the model
n == 3                              \* element count of main_sum
NumThreads == 2                     \* OpenMP team size
DataM == 1                          \* rows of as and cs in the model
DataK == 1                          \* columns of as, rows of bs in the model
DataN == 2                          \* columns of bs and cs in the model
MaxMN == 51                         \* validator spec: largest output size M*N

benchmarkingIters == 10
M == 1024
K == 1024
N == 1024

UintMod == 2 ^ UintBits
UINT_MAX == UintMod - 1             \* std::numeric_limits<unsigned int>::max()

(***************************************************************************)
(* Rational arithmetic with IEEE NaN propagation.                          *)
(***************************************************************************)
RECURSIVE GCD(_, _)
GCD(a, b) == IF b = 0 THEN a ELSE GCD(b, a % b)

Abs(x) == IF x < 0 THEN -x ELSE x

NaN == <<0, 0>>
IsNaN(x) == x[2] = 0

Norm(x) ==
    IF x[2] = 0 THEN NaN
    ELSE LET g == GCD(Abs(x[1]), Abs(x[2]))
             s == IF x[2] < 0 THEN -1 ELSE 1
         IN  <<s * (x[1] \div g), s * (x[2] \div g)>>

R(k) == <<k, 1>>
RAdd(x, y) == IF IsNaN(x) \/ IsNaN(y) THEN NaN
              ELSE Norm(<<x[1] * y[2] + y[1] * x[2], x[2] * y[2]>>)
RSub(x, y) == IF IsNaN(x) \/ IsNaN(y) THEN NaN
              ELSE Norm(<<x[1] * y[2] - y[1] * x[2], x[2] * y[2]>>)
RMul(x, y) == IF IsNaN(x) \/ IsNaN(y) THEN NaN
              ELSE Norm(<<x[1] * y[1], x[2] * y[2]>>)
\* x / y with y # 0 wherever the programs divide
RDiv(x, y) == IF IsNaN(x) \/ IsNaN(y) \/ y[1] = 0 THEN NaN
              ELSE Norm(<<x[1] * y[2], x[2] * y[1]>>)
\* the ordered comparisons are false when an operand is NaN
RLt(x, y) == ~IsNaN(x) /\ ~IsNaN(y) /\ x[1] * y[2] < y[1] * x[2]
RGt(x, y) == RLt(y, x)
RLe(x, y) == ~IsNaN(x) /\ ~IsNaN(y) /\ x[1] * y[2] <= y[1] * x[2]
\* a != 0.0 is true of NaN
RNonZero(x) == IsNaN(x) \/ x[1] # 0
fabs(x) == IF IsNaN(x) THEN NaN ELSE <<Abs(x[1]), x[2]>>
\* std::max(a, b) is (a < b) ? b : a
StdMax(a, b) == IF RLt(a, b) THEN b ELSE a


(***************************************************************************)
(* Collaborators outside the two source files.                             *)
(***************************************************************************)
\* FastRandom::next(min, max): some integer of [min, max]
FastRandomNext(min, max) == min .. max
\* FastRandom::nextf(): some float
FastRandomNextf == {R(0), R(1)}
\* timer::lapAvg(): the mean lap time in seconds, a positive number
LapAvgs == {<<1, 1>>, <<1, 2>>}
\* contents of device memory that was allocated and never written
GarbageWords == {0, UINT_MAX}
GarbageFloats == {R(0), NaN}

(***************************************************************************)
(* main_sum.cpp                                                            *)
(***************************************************************************)
SumLabels == <<"CPU", "CPU OMP", "GPU naive", "GPU loop", "GPU loop coalesced",
               "GPU local", "GPU tree">>
SumKernels == <<"sum_naive", "sum_loop", "sum_loop_coalesced", "sum_local", "sum_tree">>

\* an upper end divided by one element too few
MaxElemOffByOne == UINT_MAX \div (n - 1)

\* the upper end of the generated values, line 31
MaxElem == UINT_MAX \div n

\* unsigned int addition
UAdd(a, b) == (a + b) % UintMod

\* sum = 0; for (i = 0; i < len; ++i) sum += arr[i];
RECURSIVE SeqSumTo(_, _)
SeqSumTo(arr, len) == IF len = 0 THEN 0 ELSE UAdd(SeqSumTo(arr, len - 1), arr[len])
SeqSum(arr) == SeqSumTo(arr, n)

\* the private sum of thread t: starts at 0 and adds the elements of the
\* indices of the loop that the schedule gave to t
RECURSIVE ThreadPartialTo(_, _, _, _)
ThreadPartialTo(arr, assign, t, len) ==
    IF len = 0 THEN 0
    ELSE LET rest == ThreadPartialTo(arr, assign, t, len - 1)
         IN  IF assign[len] = t THEN UAdd(rest, arr[len]) ELSE rest
\* a private sum that misses the last index of the loop
ThreadPartialShort(arr, assign, t) == ThreadPartialTo(arr, assign, t, n - 1)
ThreadPartial(arr, assign, t) == ThreadPartialTo(arr, assign, t, n)

\* reduction(+:sum): the original sum (0) plus the private sums, combined
\* in the order order[1], order[2], ...
RECURSIVE OmpCombine(_, _, _, _)
OmpCombine(arr, assign, order, k) ==
    IF k = 0 THEN 0
    ELSE UAdd(OmpCombine(arr, assign, order, k - 1),
              ThreadPartial(arr, assign, order[k]))
OmpReduce(arr, assign, order) == OmpCombine(arr, assign, order, NumThreads)

OmpSchedules == [1 .. n -> 1 .. NumThreads]
OmpOrders == Permutations(1 .. NumThreads)

\* a raiseFail that reports and never throws
raiseFailSilent(a, b) == FALSE

\* raiseFail(a, b, ...): throws when a != b
raiseFail(a, b) == a # b

\* what a reduction kernel may leave in result_gpu: the sum of the buffer it
\* was given, the value it found, or a wrong value
SumKernelResults(buf, old) == {SeqSum(buf), old, UAdd(SeqSum(buf), 1)}

NoLaunch == [variant |-> 0, iter |-> 0, fresh |-> {}, prevRead |-> FALSE]
NoUploads == [b \in {"as_gpu", "bs_gpu", "cs_gpu", "result_gpu"} |-> 0]

InitCommon ==
    /\ exitStatus = "none"
    /\ out = <<>>
    /\ shown = [value |-> R(0), lapAvg |-> R(1)]
    /\ bs = <<>> /\ cs = <<>> /\ cs_cpu_reference = <<>>
    /\ reference_sum = 0
    /\ i = 0 /\ sum = 0 /\ result = 0
    /\ diff_sum = R(0) /\ diff_avg = R(0)
    /\ iter = 0 /\ variant = 0 /\ laps = 0
    /\ as_gpu = <<>> /\ bs_gpu = <<>> /\ cs_gpu = <<>> /\ result_gpu = 0
    /\ fresh = {} /\ readBack = FALSE /\ lastLaunch = NoLaunch
    /\ uploads = NoUploads
    /\ nValid = 0 /\ validated = 0 /\ withinTol = TRUE /\ trialsOk = 0
    /\ ompAssign = <<>> /\ ompOrder = <<>>
    /\ corrupt = [idx |-> 0, up |-> FALSE]

\* lines 23-28
InitSum ==
    /\ prog = "sum"
    /\ pc = "gen"
    /\ as = [j \in 1 .. n |-> 0]
    /\ InitCommon

\* the uncaught std::runtime_error ends the process
Throw ==
    /\ pc' = "aborted"
    /\ exitStatus' = "terminate"

\* lines 31-32: as[i] = r.next(0, max / n); reference_sum += as[i]; ++i
GenStep ==
    /\ \E v \in FastRandomNext(0, MaxElem) :
          /\ as' = [as EXCEPT ![i + 1] = v]
          /\ reference_sum' = UAdd(reference_sum, v)
    /\ i' = i + 1

\* one round of the loop of lines 30-33
Generate ==
    /\ prog = "sum" /\ pc = "gen" /\ i < n
    /\ GenStep
    /\ UNCHANGED <<prog, pc, exitStatus, out, shown, bs, cs, cs_cpu_reference,
                   sum, result, diff_sum, diff_avg, iter, variant, laps, as_gpu, bs_gpu,
                   cs_gpu, result_gpu, fresh, readBack, lastLaunch, uploads,
                   nValid, validated, withinTol, trialsOk, ompAssign, ompOrder,
                   corrupt>>

\* line 30, loop exit; line 36
GenerateDone ==
    /\ prog = "sum" /\ pc = "gen" /\ i = n
    /\ pc' = "cpu_sum"
    /\ iter' = 0 /\ laps' = 0 /\ nValid' = 0
    /\ UNCHANGED <<prog, exitStatus, out, shown, as, bs, cs, cs_cpu_reference,
                   reference_sum, i, sum, result, diff_sum, diff_avg, variant, as_gpu,
                   bs_gpu, cs_gpu, result_gpu, fresh, readBack, lastLaunch,
                   uploads, validated, withinTol, trialsOk, ompAssign, ompOrder,
                   corrupt>>

\* lines 38-41
CpuSum ==
    /\ prog = "sum" /\ pc = "cpu_sum"
    /\ sum' = SeqSum(as)
    /\ pc' = "cpu_check"
    /\ UNCHANGED <<prog, exitStatus, out, shown, as, bs, cs, cs_cpu_reference,
                   reference_sum, i, result, diff_sum, diff_avg, iter, variant, laps,
                   as_gpu, bs_gpu, cs_gpu, result_gpu, fresh, readBack,
                   lastLaunch, uploads, nValid, validated, withinTol, trialsOk,
                   ompAssign, ompOrder, corrupt>>

\* lines 52-56
OmpSum ==
    /\ prog = "sum" /\ pc = "omp_sum"
    /\ \E assign \in OmpSchedules, order \in OmpOrders :
          sum' = OmpReduce(as, assign, order)
    /\ pc' = "omp_check"
    /\ UNCHANGED <<prog, exitStatus, out, shown, as, bs, cs, cs_cpu_reference,
                   reference_sum, i, result, diff_sum, diff_avg, iter, variant, laps,
                   as_gpu, bs_gpu, cs_gpu, result_gpu, fresh, readBack,
                   lastLaunch, uploads, nValid, validated, withinTol, trialsOk,
                   ompAssign, ompOrder, corrupt>>

\* EXPECT_THE_SAME(reference_sum, value, ...); t.nextLap(); ++iter and the
\* loop test: shared by the seven blocks
CheckAndLap(value, again, after) ==
    /\ nValid' = nValid + 1
    /\ IF raiseFail(reference_sum, value)
       THEN /\ Throw
            /\ UNCHANGED <<laps, iter, trialsOk>>
       ELSE /\ laps' = laps + 1
            /\ iter' = iter + 1
            /\ trialsOk' = trialsOk + 1
            /\ pc' = IF iter + 1 < benchmarkingIters THEN again ELSE after
            /\ UNCHANGED exitStatus

\* lines 42-43
CpuCheck ==
    /\ prog = "sum" /\ pc = "cpu_check"
    /\ CheckAndLap(sum, "cpu_sum", "cpu_print")
    /\ UNCHANGED <<prog, out, shown, as, bs, cs, cs_cpu_reference,
                   reference_sum, i, sum, result, diff_sum, diff_avg, variant, as_gpu,
                   bs_gpu, cs_gpu, result_gpu, fresh, readBack, lastLaunch,
                   uploads, validated, withinTol, ompAssign, ompOrder, corrupt>>

\* lines 57-58
OmpCheck ==
    /\ prog = "sum" /\ pc = "omp_check"
    /\ CheckAndLap(sum, "omp_sum", "omp_print")
    /\ UNCHANGED <<prog, out, shown, as, bs, cs, cs_cpu_reference,
                   reference_sum, i, sum, result, diff_sum, diff_avg, variant, as_gpu,
                   bs_gpu, cs_gpu, result_gpu, fresh, readBack, lastLaunch,
                   uploads, validated, withinTol, ompAssign, ompOrder, corrupt>>

\* the two lines a block of main_sum prints: "<label>: avg+-std s" and
\* "<label>: (n/1000.0/1000.0) / lapAvg millions/s"
SumPrint(label) ==
    \E t \in LapAvgs :
       /\ out' = out \o << <<label, "time">>, <<label, "throughput">> >>
       /\ shown' = [value |-> RDiv(Norm(<<n, 1000 * 1000>>), t), lapAvg |-> t]

\* lines 45-46, then line 50
CpuPrint ==
    /\ prog = "sum" /\ pc = "cpu_print"
    /\ SumPrint(SumLabels[1])
    /\ pc' = "omp_sum"
    /\ iter' = 0 /\ laps' = 0 /\ nValid' = 0
    /\ UNCHANGED <<prog, exitStatus, as, bs, cs, cs_cpu_reference,
                   reference_sum, i, sum, result, diff_sum, diff_avg, variant, as_gpu,
                   bs_gpu, cs_gpu, result_gpu, fresh, readBack, lastLaunch,
                   uploads, validated, withinTol, trialsOk, ompAssign, ompOrder,
                   corrupt>>

\* lines 60-61, then lines 64-76: the device is chosen, as_gpu is sized and
\* written, result_gpu is sized
OmpPrint ==
    /\ prog = "sum" /\ pc = "omp_print"
    /\ SumPrint(SumLabels[2])
    /\ as_gpu' = as
    /\ \E g \in GarbageWords : result_gpu' = g
    /\ fresh' = fresh \cup {"as_gpu"}
    /\ uploads' = [uploads EXCEPT !["as_gpu"] = @ + 1]
    /\ variant' = 1
    /\ pc' = "gpu_compile"
    /\ UNCHANGED <<prog, exitStatus, as, bs, cs, cs_cpu_reference,
                   reference_sum, i, sum, result, diff_sum, diff_avg, iter, laps, bs_gpu,
                   cs_gpu, readBack, lastLaunch, nValid, validated, withinTol,
                   trialsOk, ompAssign, ompOrder, corrupt>>

\* lines 79-82 (and 104-107, ...): the kernel of the block is compiled, the
\* timer of the block starts
GpuCompile ==
    /\ prog = "sum" /\ pc = "gpu_compile"
    /\ pc' = "gpu_write"
    /\ iter' = 0 /\ laps' = 0 /\ nValid' = 0
    /\ UNCHANGED <<prog, exitStatus, out, shown, as, bs, cs, cs_cpu_reference,
                   reference_sum, i, sum, result, diff_sum, diff_avg, variant, as_gpu,
                   bs_gpu, cs_gpu, result_gpu, fresh, readBack, lastLaunch,
                   uploads, validated, withinTol, trialsOk, ompAssign, ompOrder,
                   corrupt>>

\* a trial that clears result on the host and does not write result_gpu
GpuWriteHostOnly ==
    /\ prog = "sum" /\ pc = "gpu_write"
    /\ result' = 0
    /\ pc' = "gpu_exec"
    /\ UNCHANGED <<prog, exitStatus, out, shown, as, bs, cs, cs_cpu_reference,
                   reference_sum, i, sum, diff_sum, diff_avg, iter, variant, laps, as_gpu,
                   bs_gpu, cs_gpu, result_gpu, fresh, uploads, readBack,
                   lastLaunch, nValid, validated, withinTol, trialsOk,
                   ompAssign, ompOrder, corrupt>>

\* lines 84-86: unsigned int result = 0; result_gpu.writeN(&result, 1)
GpuWrite ==
    /\ prog = "sum" /\ pc = "gpu_write"
    /\ result' = 0
    /\ result_gpu' = 0
    /\ fresh' = fresh \cup {"result_gpu"}
    /\ uploads' = [uploads EXCEPT !["result_gpu"] = @ + 1]
    /\ pc' = "gpu_exec"
    /\ UNCHANGED <<prog, exitStatus, out, shown, as, bs, cs, cs_cpu_reference,
                   reference_sum, i, sum, diff_sum, diff_avg, iter, variant, laps, as_gpu,
                   bs_gpu, cs_gpu, readBack, lastLaunch, nValid, validated,
                   withinTol, trialsOk, ompAssign, ompOrder, corrupt>>

\* lines 88-91: kernel.exec(WorkSize, as_gpu, n, result_gpu)
GpuExec ==
    /\ prog = "sum" /\ pc = "gpu_exec"
    /\ \E r \in SumKernelResults(as_gpu, result_gpu) : result_gpu' = r
    /\ lastLaunch' = [variant |-> variant, iter |-> iter, fresh |-> fresh,
                      prevRead |-> readBack]
    /\ fresh' = {}
    /\ readBack' = FALSE
    /\ pc' = "gpu_read"
    /\ UNCHANGED <<prog, exitStatus, out, shown, as, bs, cs, cs_cpu_reference,
                   reference_sum, i, sum, result, diff_sum, diff_avg, iter, variant, laps,
                   as_gpu, bs_gpu, cs_gpu, uploads, nValid, validated,
                   withinTol, trialsOk, ompAssign, ompOrder, corrupt>>

\* line 93: result_gpu.readN(&result, 1)
GpuRead ==
    /\ prog = "sum" /\ pc = "gpu_read"
    /\ result' = result_gpu
    /\ readBack' = TRUE
    /\ pc' = "gpu_check"
    /\ UNCHANGED <<prog, exitStatus, out, shown, as, bs, cs, cs_cpu_reference,
                   reference_sum, i, sum, diff_sum, diff_avg, iter, variant, laps, as_gpu,
                   bs_gpu, cs_gpu, result_gpu, fresh, lastLaunch, uploads,
                   nValid, validated, withinTol, trialsOk, ompAssign, ompOrder,
                   corrupt>>

\* a trial that takes its lap without the check of line 94
GpuCheckNoValidation ==
    /\ prog = "sum" /\ pc = "gpu_check"
    /\ laps' = laps + 1
    /\ iter' = iter + 1
    /\ pc' = IF iter + 1 < benchmarkingIters THEN "gpu_write" ELSE "gpu_print"
    /\ UNCHANGED <<prog, exitStatus, out, shown, as, bs, cs, cs_cpu_reference,
                   reference_sum, i, sum, result, diff_sum, diff_avg, variant, as_gpu,
                   bs_gpu, cs_gpu, result_gpu, fresh, readBack, lastLaunch,
                   uploads, nValid, validated, withinTol, trialsOk, ompAssign,
                   ompOrder, corrupt>>

\* lines 94-96
GpuCheck ==
    /\ prog = "sum" /\ pc = "gpu_check"
    /\ CheckAndLap(result, "gpu_write", "gpu_print")
    /\ UNCHANGED <<prog, out, shown, as, bs, cs, cs_cpu_reference,
                   reference_sum, i, sum, result, diff_sum, diff_avg, variant, as_gpu,
                   bs_gpu, cs_gpu, result_gpu, fresh, readBack, lastLaunch,
                   uploads, validated, withinTol, ompAssign, ompOrder, corrupt>>

\* lines 99-100, then the next block or the end of main
GpuPrint ==
    /\ prog = "sum" /\ pc = "gpu_print"
    /\ SumPrint(SumLabels[variant + 2])
    /\ IF variant < Len(SumKernels)
       THEN /\ variant' = variant + 1
            /\ pc' = "gpu_compile"
            /\ UNCHANGED exitStatus
       ELSE /\ pc' = "done"
            /\ exitStatus' = "0"
            /\ UNCHANGED variant
    /\ UNCHANGED <<prog, as, bs, cs, cs_cpu_reference, reference_sum, i, sum,
                   result, diff_sum, diff_avg, iter, laps, as_gpu, bs_gpu, cs_gpu,
                   result_gpu, fresh, readBack, lastLaunch, uploads, nValid,
                   validated, withinTol, trialsOk, ompAssign, ompOrder, corrupt>>

NextSum ==
    \/ Generate \/ GenerateDone
    \/ CpuSum \/ CpuCheck \/ CpuPrint
    \/ OmpSum \/ OmpCheck \/ OmpPrint
    \/ GpuCompile \/ GpuWrite \/ GpuExec \/ GpuRead \/ GpuCheck \/ GpuPrint

SpecSum == InitSum /\ [][NextSum]_vars


(***************************************************************************)
(* main_matrix_multiplication.cpp                                          *)
(***************************************************************************)
MMLabels == <<"CPU", "GPU naive", "GPU block", "GPU many">>
MMKernels == <<"matrix_multiplication_naive", "matrix_multiplication_block",
               "matrix_multiplication_many">>

\* line 26: ((size_t) M * K * N * 2) / (1000 * 1000 * 1000), an integer
\* division.  2 * 1024^3 is beyond the integers of the model checker, so the
\* factor 2 is cancelled against the divisor: 2x \div 2c = x \div c.
Gflops(m, k, nn) == (m * k * nn) \div ((1000 * 1000 * 1000) \div 2)
gflops == Gflops(M, K, N)

\* lines 46-49: the inner product of row j of a and column c of b
RECURSIVE InnerTo(_, _, _, _, _)
InnerTo(a, b, j, c, k) ==
    IF k = 0 THEN R(0)
    ELSE RAdd(InnerTo(a, b, j, c, k - 1),
              RMul(a[(j - 1) * DataK + k], b[(k - 1) * DataN + c]))

\* lines 44-52: cs[j * N + i] = sum
MatMul(a, b) ==
    [e \in 1 .. DataM * DataN |->
        InnerTo(a, b, ((e - 1) \div DataN) + 1, ((e - 1) % DataN) + 1, DataK)]

\* a relative difference taken against the reference alone
RelDiffByReference(a, b) == RDiv(fabs(RSub(a, b)), fabs(b))

\* line 103: fabs(a - b) / std::max(fabs(a), fabs(b))
RelDiff(a, b) == RDiv(fabs(RSub(a, b)), StdMax(fabs(a), fabs(b)))

\* lines 100-105: one round of the loop, diff_sum += diff
DiffStep(acc, a, b) ==
    IF RNonZero(a) \/ RNonZero(b) THEN RAdd(acc, RelDiff(a, b)) ELSE acc

\* lines 98-106: diff_sum over the first len elements
RECURSIVE DiffSumTo(_, _, _)
DiffSumTo(cand, ref, len) ==
    IF len = 0 THEN R(0)
    ELSE DiffStep(DiffSumTo(cand, ref, len - 1), cand[len], ref[len])

\* line 108: diff_sum / (M * N)
DiffAvgOf(total, len) == RDiv(total, R(len))
DiffAvg(cand, ref, len) == DiffAvgOf(DiffSumTo(cand, ref, len), len)

\* line 110: the bound 0.01 and the test diff_avg > 0.01
Tolerance == <<1, 100>>
TooBig(d) == RGt(d, Tolerance)

\* a validation whose failure is only looked at after the last block
AfterValidateSoft(failed, v) ==
    IF v < Len(MMKernels)
    THEN [pc |-> "mm_upload", exitStatus |-> "none", variant |-> v + 1]
    ELSE [pc |-> "done", exitStatus |-> IF failed THEN "1" ELSE "0", variant |-> v]

\* lines 110-113 and the fall through to the next block or to line 216:
\* where main goes after the validation of block v
AfterValidate(failed, v) ==
    IF failed THEN [pc |-> "done", exitStatus |-> "1", variant |-> v]
    ELSE IF v < Len(MMKernels)
         THEN [pc |-> "mm_upload", exitStatus |-> "none", variant |-> v + 1]
         ELSE [pc |-> "done", exitStatus |-> "0", variant |-> v]

\* what a product kernel may leave in cs_gpu: the product of the buffers it
\* was given, the buffer as it found it, or the product with a wrong or a
\* NaN first element
MMKernelResults(a, b, old) ==
    LET good == MatMul(a, b)
    IN  {good, old, [good EXCEPT ![1] = RAdd(@, R(1))], [good EXCEPT ![1] = NaN]}

\* lines 22-30
InitMM ==
    /\ prog = "mm"
    /\ pc = "mm_gen"
    /\ as = <<>>
    /\ InitCommon

\* lines 28-39, then line 42
MMGenerate ==
    /\ prog = "mm" /\ pc = "mm_gen"
    /\ \E a \in [1 .. DataM * DataK -> FastRandomNextf],
          b \in [1 .. DataK * DataN -> FastRandomNextf] :
          /\ as' = a
          /\ bs' = b
    /\ cs' = [e \in 1 .. DataM * DataN |-> R(0)]
    /\ out' = out \o << <<"Data generated", "info">> >>
    /\ iter' = 0 /\ laps' = 0
    /\ pc' = "mm_cpu"
    /\ UNCHANGED <<prog, exitStatus, shown, cs_cpu_reference, reference_sum, i,
                   sum, result, diff_sum, diff_avg, variant, as_gpu, bs_gpu, cs_gpu,
                   result_gpu, fresh, readBack, lastLaunch, uploads, nValid,
                   validated, withinTol, trialsOk, ompAssign, ompOrder, corrupt>>

\* lines 43-54: one trial of the CPU product
MMCpuTrial ==
    /\ prog = "mm" /\ pc = "mm_cpu"
    /\ cs' = MatMul(as, bs)
    /\ laps' = laps + 1
    /\ iter' = iter + 1
    /\ pc' = IF iter + 1 < benchmarkingIters THEN "mm_cpu" ELSE "mm_cpu_print"
    /\ UNCHANGED <<prog, exitStatus, out, shown, as, bs, cs_cpu_reference,
                   reference_sum, i, sum, result, diff_sum, diff_avg, variant, as_gpu,
                   bs_gpu, cs_gpu, result_gpu, fresh, readBack, lastLaunch,
                   uploads, nValid, validated, withinTol, trialsOk, ompAssign,
                   ompOrder, corrupt>>

\* the two lines a block of the matrix program prints: "<label>: avg+-std s"
\* and "<label>: gflops / lapAvg GFlops"
MMPrintLines(label) ==
    \E t \in LapAvgs :
       /\ out' = out \o << <<label, "time">>, <<label, "throughput">> >>
       /\ shown' = [value |-> RDiv(R(gflops), t), lapAvg |-> t]

\* lines 55-64: the CPU lines, the reference copy, the device buffers
MMCpuPrint ==
    /\ prog = "mm" /\ pc = "mm_cpu_print"
    /\ MMPrintLines(MMLabels[1])
    /\ cs_cpu_reference' = cs
    /\ \E g \in GarbageFloats :
          /\ as_gpu' = [e \in 1 .. DataM * DataK |-> g]
          /\ bs_gpu' = [e \in 1 .. DataK * DataN |-> g]
          /\ cs_gpu' = [e \in 1 .. DataM * DataN |-> g]
    /\ variant' = 1
    /\ pc' = "mm_upload"
    /\ UNCHANGED <<prog, exitStatus, as, bs, cs, reference_sum, i, sum, result,
                   diff_sum, diff_avg, iter, laps, result_gpu, fresh, readBack,
                   lastLaunch, uploads, nValid, validated, withinTol, trialsOk,
                   ompAssign, ompOrder, corrupt>>

\* lines 67-78 (117-128, 167-178): the inputs are written, the kernel of the
\* block is compiled, the timer of the block starts
MMUpload ==
    /\ prog = "mm" /\ pc = "mm_upload"
    /\ as_gpu' = as
    /\ bs_gpu' = bs
    /\ fresh' = fresh \cup {"as_gpu", "bs_gpu"}
    /\ uploads' = [uploads EXCEPT !["as_gpu"] = @ + 1, !["bs_gpu"] = @ + 1]
    /\ iter' = 0 /\ laps' = 0 /\ nValid' = 0
    /\ pc' = "mm_exec"
    /\ UNCHANGED <<prog, exitStatus, out, shown, as, bs, cs, cs_cpu_reference,
                   reference_sum, i, sum, result, diff_sum, diff_avg, variant, cs_gpu,
                   result_gpu, readBack, lastLaunch, validated, withinTol,
                   trialsOk, ompAssign, ompOrder, corrupt>>

\* lines 79-91: one trial, kernel.exec(WorkSize, as_gpu, bs_gpu, cs_gpu, M, K, N)
\* and t.nextLap()
MMExec ==
    /\ prog = "mm" /\ pc = "mm_exec"
    /\ \E c \in MMKernelResults(as_gpu, bs_gpu, cs_gpu) : cs_gpu' = c
    /\ lastLaunch' = [variant |-> variant, iter |-> iter, fresh |-> fresh,
                      prevRead |-> readBack]
    /\ fresh' = {}
    /\ readBack' = FALSE
    /\ laps' = laps + 1
    /\ iter' = iter + 1
    /\ pc' = IF iter + 1 < benchmarkingIters THEN "mm_exec" ELSE "mm_print"
    /\ UNCHANGED <<prog, exitStatus, out, shown, as, bs, cs, cs_cpu_reference,
                   reference_sum, i, sum, result, diff_sum, diff_avg, variant, as_gpu,
                   bs_gpu, result_gpu, uploads, nValid, validated, withinTol,
                   trialsOk, ompAssign, ompOrder, corrupt>>

\* lines 92-93
MMPrint ==
    /\ prog = "mm" /\ pc = "mm_print"
    /\ MMPrintLines(MMLabels[variant + 1])
    /\ pc' = "mm_read"
    /\ UNCHANGED <<prog, exitStatus, as, bs, cs, cs_cpu_reference,
                   reference_sum, i, sum, result, diff_sum, diff_avg, iter, variant, laps,
                   as_gpu, bs_gpu, cs_gpu, result_gpu, fresh, readBack,
                   lastLaunch, uploads, nValid, validated, withinTol, trialsOk,
                   ompAssign, ompOrder, corrupt>>

\* line 95: cs_gpu.readN(cs.data(), M*N)
MMRead ==
    /\ prog = "mm" /\ pc = "mm_read"
    /\ cs' = cs_gpu
    /\ readBack' = TRUE
    /\ pc' = "mm_validate"
    /\ UNCHANGED <<prog, exitStatus, out, shown, as, bs, cs_cpu_reference,
                   reference_sum, i, sum, result, diff_sum, diff_avg, iter, variant, laps,
                   as_gpu, bs_gpu, cs_gpu, result_gpu, fresh, lastLaunch,
                   uploads, nValid, validated, withinTol, trialsOk, ompAssign,
                   ompOrder, corrupt>>

\* lines 97-113: the average difference is computed and printed; when it is
\* too big the diagnostic is printed and main returns 1
MMValidate ==
    /\ prog = "mm" /\ pc = "mm_validate"
    /\ LET d == DiffAvg(cs, cs_cpu_reference, DataM * DataN)
           to == AfterValidate(TooBig(d), variant)
       IN  /\ diff_sum' = DiffSumTo(cs, cs_cpu_reference, DataM * DataN)
           /\ diff_avg' = d
           /\ out' = out \o << <<MMLabels[variant + 1], "average difference">> >>
                         \o (IF TooBig(d)
                             THEN << <<MMLabels[variant + 1], "Too big difference!">> >>
                             ELSE <<>>)
           /\ withinTol' = (withinTol /\ RLe(d, Tolerance))
           /\ pc' = to.pc
           /\ exitStatus' = to.exitStatus
           /\ variant' = to.variant
    /\ nValid' = nValid + 1
    /\ validated' = validated + 1
    /\ UNCHANGED <<prog, shown, as, bs, cs, cs_cpu_reference, reference_sum, i,
                   sum, result, iter, laps, as_gpu, bs_gpu, cs_gpu, result_gpu,
                   fresh, readBack, lastLaunch, uploads, trialsOk, ompAssign,
                   ompOrder, corrupt>>

NextMM ==
    \/ MMGenerate \/ MMCpuTrial \/ MMCpuPrint
    \/ MMUpload \/ MMExec \/ MMPrint \/ MMRead \/ MMValidate

SpecMM == InitMM /\ [][NextMM]_vars

Init == InitSum \/ InitMM
Next == NextSum \/ NextMM
Spec == Init /\ [][Next]_vars


(***************************************************************************)
(* The host-parallel reduction of main_sum on its own: the array is        *)
(* generated as in lines 30-33, then the sequential loop (lines 38-41) and *)
(* the OpenMP loop (lines 52-56) run on it under one schedule and one      *)
(* order of combination, and the result is checked (line 57).              *)
(***************************************************************************)
InitOmp ==
    /\ prog = "omp"
    /\ pc = "gen"
    /\ as = [j \in 1 .. n |-> 0]
    /\ InitCommon

OmpGenerate ==
    /\ prog = "omp" /\ pc = "gen" /\ i < n
    /\ GenStep
    /\ UNCHANGED <<prog, pc, exitStatus, out, shown, bs, cs, cs_cpu_reference,
                   sum, result, diff_sum, diff_avg, iter, variant, laps, as_gpu, bs_gpu,
                   cs_gpu, result_gpu, fresh, readBack, lastLaunch, uploads,
                   nValid, validated, withinTol, trialsOk, ompAssign, ompOrder,
                   corrupt>>

\* the sequential loop, lines 38-41
OmpSequential ==
    /\ prog = "omp" /\ pc = "gen" /\ i = n
    /\ sum' = SeqSum(as)
    /\ pc' = "fork"
    /\ UNCHANGED <<prog, exitStatus, out, shown, as, bs, cs, cs_cpu_reference,
                   reference_sum, i, result, diff_sum, diff_avg, iter, variant, laps,
                   as_gpu, bs_gpu, cs_gpu, result_gpu, fresh, readBack,
                   lastLaunch, uploads, nValid, validated, withinTol, trialsOk,
                   ompAssign, ompOrder, corrupt>>

\* line 53: the runtime splits the index range and fixes the order of the
\* combination
OmpFork ==
    /\ prog = "omp" /\ pc = "fork"
    /\ \E assign \in OmpSchedules, order \in OmpOrders :
          /\ ompAssign' = assign
          /\ ompOrder' = order
    /\ pc' = "join"
    /\ UNCHANGED <<prog, exitStatus, out, shown, as, bs, cs, cs_cpu_reference,
                   reference_sum, i, sum, result, diff_sum, diff_avg, iter, variant, laps,
                   as_gpu, bs_gpu, cs_gpu, result_gpu, fresh, readBack,
                   lastLaunch, uploads, nValid, validated, withinTol, trialsOk,
                   corrupt>>

\* lines 54-56: the partial sums are formed and combined
OmpJoin ==
    /\ prog = "omp" /\ pc = "join"
    /\ result' = OmpReduce(as, ompAssign, ompOrder)
    /\ pc' = "compare"
    /\ UNCHANGED <<prog, exitStatus, out, shown, as, bs, cs, cs_cpu_reference,
                   reference_sum, i, sum, diff_sum, diff_avg, iter, variant, laps, as_gpu,
                   bs_gpu, cs_gpu, result_gpu, fresh, readBack, lastLaunch,
                   uploads, nValid, validated, withinTol, trialsOk, ompAssign,
                   ompOrder, corrupt>>

\* line 57
OmpCompare ==
    /\ prog = "omp" /\ pc = "compare"
    /\ IF raiseFail(reference_sum, result)
       THEN Throw
       ELSE /\ pc' = "consistent"
            /\ UNCHANGED exitStatus
    /\ UNCHANGED <<prog, out, shown, as, bs, cs, cs_cpu_reference,
                   reference_sum, i, sum, result, diff_sum, diff_avg, iter, variant, laps,
                   as_gpu, bs_gpu, cs_gpu, result_gpu, fresh, readBack,
                   lastLaunch, uploads, nValid, validated, withinTol, trialsOk,
                   ompAssign, ompOrder, corrupt>>

NextOmp == OmpGenerate \/ OmpSequential \/ OmpFork \/ OmpJoin \/ OmpCompare

SpecOmp == InitOmp /\ [][NextOmp]_vars

(***************************************************************************)
(* The validator of the matrix program on its own (lines 97-113): a        *)
(* reference of M*N elements, a candidate that differs from it in one      *)
(* nonzero element scaled by 3/2 or by 1/2, and the verdict.               *)
(***************************************************************************)
\* references: z zero elements followed by copies of v
ValidatorRefs ==
    {[e \in 1 .. mn |-> IF e <= z THEN R(0) ELSE v] :
        mn \in 1 .. MaxMN, z \in {0, 1}, v \in {R(1), R(2)}}

InitValidator ==
    /\ prog = "validator"
    /\ pc = "corrupt"
    /\ as = <<>>
    /\ exitStatus = "none"
    /\ out = <<>>
    /\ shown = [value |-> R(0), lapAvg |-> R(1)]
    /\ bs = <<>>
    /\ \E ref \in ValidatorRefs :
          /\ cs_cpu_reference = ref
          /\ cs = ref
    /\ reference_sum = 0
    /\ i = 0 /\ sum = 0 /\ result = 0
    /\ diff_sum = R(0) /\ diff_avg = R(0)
    /\ iter = 0 /\ variant = 0 /\ laps = 0
    /\ as_gpu = <<>> /\ bs_gpu = <<>> /\ cs_gpu = <<>> /\ result_gpu = 0
    /\ fresh = {} /\ readBack = FALSE /\ lastLaunch = NoLaunch
    /\ uploads = NoUploads
    /\ nValid = 0 /\ validated = 0 /\ withinTol = TRUE /\ trialsOk = 0
    /\ ompAssign = <<>> /\ ompOrder = <<>>
    /\ corrupt = [idx |-> 0, up |-> FALSE]

\* one nonzero element of the candidate is perturbed by 50%
Corrupt ==
    /\ prog = "validator" /\ pc = "corrupt"
    /\ \E idx \in 1 .. Len(cs), up \in BOOLEAN :
          /\ cs_cpu_reference[idx] # R(0)
          /\ cs' = [cs EXCEPT ![idx] = RMul(@, IF up THEN <<3, 2>> ELSE <<1, 2>>)]
          /\ corrupt' = [idx |-> idx, up |-> up]
    /\ pc' = "validate"
    /\ UNCHANGED <<prog, exitStatus, out, shown, as, bs, cs_cpu_reference,
                   reference_sum, i, sum, result, diff_sum, diff_avg, iter, variant, laps,
                   as_gpu, bs_gpu, cs_gpu, result_gpu, fresh, readBack,
                   lastLaunch, uploads, nValid, validated, withinTol, trialsOk,
                   ompAssign, ompOrder>>

\* lines 99-106: one round of the loop over the elements
ValidateStep ==
    /\ prog = "validator" /\ pc = "validate" /\ i < Len(cs)
    /\ diff_sum' = DiffStep(diff_sum, cs[i + 1], cs_cpu_reference[i + 1])
    /\ i' = i + 1
    /\ UNCHANGED <<prog, pc, exitStatus, out, shown, as, bs, cs,
                   cs_cpu_reference, reference_sum, sum, result, diff_avg, iter,
                   variant, laps, as_gpu, bs_gpu, cs_gpu, result_gpu, fresh,
                   readBack, lastLaunch, uploads, nValid, validated, withinTol,
                   trialsOk, ompAssign, ompOrder, corrupt>>

\* lines 108-113
Validate ==
    /\ prog = "validator" /\ pc = "validate" /\ i = Len(cs)
    /\ LET d == DiffAvgOf(diff_sum, Len(cs))
       IN  /\ diff_avg' = d
           /\ pc' = IF TooBig(d) THEN "fail" ELSE "pass"
           /\ exitStatus' = IF TooBig(d) THEN "1" ELSE "none"
    /\ UNCHANGED <<prog, out, shown, as, bs, cs, cs_cpu_reference,
                   reference_sum, i, sum, result, diff_sum, iter, variant, laps,
                   as_gpu, bs_gpu, cs_gpu, result_gpu, fresh, readBack,
                   lastLaunch, uploads, nValid, validated, withinTol, trialsOk,
                   ompAssign, ompOrder, corrupt>>

NextValidator == Corrupt \/ ValidateStep \/ Validate

SpecValidator == InitValidator /\ [][NextValidator]_vars


(***************************************************************************)
(* Properties                                                              *)
(***************************************************************************)
\* the trial at the check of a block of main_sum produced a sum that
\* differs from reference_sum
Mismatch ==
    \/ pc \in {"cpu_check", "omp_check"} /\ sum # reference_sum
    \/ pc = "gpu_check" /\ result # reference_sum

\* C1: in main_sum a trial whose sum differs from reference_sum ends the run
\* at that trial: the step taken from the check goes to the aborted state
\* without a lap, a further trial, a further block or a printed line, and no
\* step is ever taken from the aborted state.
C1_AbortAtMismatch ==
    [][/\ pc # "aborted"
       /\ Mismatch =>
            /\ pc' = "aborted"
            /\ exitStatus' = "terminate"
            /\ out' = out
            /\ <<laps, iter, variant, trialsOk>>' = <<laps, iter, variant, trialsOk>>
            /\ <<lastLaunch, uploads>>' = <<lastLaunch, uploads>>]_vars

\* a GPU trial returned a wrong sum and the run stopped in the middle of
\* the block, before its lines were printed
C1_Witness ==
    /\ prog = "sum" /\ pc = "aborted"
    /\ variant = 2 /\ iter = 1
    /\ result # reference_sum
    /\ Len(out) = 2 * (variant + 1)

\* C2: the completion status is 0 only when no validation failed: in the
\* matrix program all three blocks ran all their trials and had an average
\* relative error <= 0.01, in main_sum every trial of the seven blocks
\* returned reference_sum.
C2_StatusReflectsValidation ==
    /\ (prog = "mm" /\ exitStatus = "0") =>
          /\ validated = Len(MMKernels)
          /\ laps = benchmarkingIters
          /\ withinTol
    /\ (prog = "sum" /\ exitStatus = "0") =>
          trialsOk = Len(SumLabels) * benchmarkingIters

\* C3 as stated: a candidate with one nonzero element perturbed by 50% gets
\* the verdict fail, whatever the output size.
C3_CorruptedAlwaysFails ==
    (prog = "validator" /\ pc \in {"pass", "fail"}) => pc = "fail"

\* C3 as amended: the average relative error of such a candidate is
\* (1/3)/(M*N) when the element is scaled by 3/2 and (1/2)/(M*N) when it is
\* scaled by 1/2; the verdict is fail exactly when M*N <= 33, respectively
\* M*N <= 49, and pass for every larger output.
C3_CorruptedFailsWhenSmall ==
    (prog = "validator" /\ pc \in {"pass", "fail"}) =>
        /\ diff_avg = RDiv(IF corrupt.up THEN <<1, 3>> ELSE <<1, 2>>, R(Len(cs)))
        /\ pc = "fail" <=> Len(cs) <= (IF corrupt.up THEN 33 ELSE 49)

\* a corrupted candidate of 40 elements, scaled up, passed
C3_Witness ==
    /\ prog = "validator" /\ pc = "pass"
    /\ corrupt.up /\ Len(cs) = 40
    /\ cs[corrupt.idx] = RMul(cs_cpu_reference[corrupt.idx], <<3, 2>>)

\* C4: whatever the array, the split of the indices among the threads and
\* the order of the combination, the OpenMP sum equals the sequential sum
\* and reference_sum, and the check on it never throws.
C4_OmpEqualsSequential ==
    prog = "omp" =>
        /\ pc # "aborted"
        /\ pc \in {"compare", "consistent"} =>
              /\ result = sum
              /\ result = reference_sum

\* both threads had a share of a nonzero array and the second thread's
\* partial sum was combined first
C4_Witness ==
    /\ prog = "omp" /\ pc = "consistent"
    /\ reference_sum > 0
    /\ \E j, k \in 1 .. n : ompAssign[j] # ompAssign[k] /\ as[j] > 0 /\ as[k] > 0
    /\ ompOrder[1] # 1

\* the sum of the first len elements in unbounded arithmetic
RECURSIVE ExactSumTo(_, _)
ExactSumTo(arr, len) == IF len = 0 THEN 0 ELSE ExactSumTo(arr, len - 1) + arr[len]

\* C5: every generated element lies in [0, floor(UINT_MAX / n)], the exact
\* sum of the elements is at most UINT_MAX and reference_sum equals it: the
\* accumulation never wraps.
C5_ReferenceSumExact ==
    prog = "sum" =>
        /\ \A j \in 1 .. n : as[j] >= 0 /\ as[j] <= UINT_MAX \div n
        /\ ExactSumTo(as, n) <= UINT_MAX
        /\ reference_sum = ExactSumTo(as, i)

\* the array of n largest elements was generated
C5_Witness ==
    /\ prog = "sum" /\ pc = "cpu_sum"
    /\ \A j \in 1 .. n : as[j] = UINT_MAX \div n
    /\ reference_sum = n * (UINT_MAX \div n)

\* C6: the throughput printed by the matrix program is the operation count
\* 2*M*K*N over the mean lap time, in 10^9 operations per second:
\* (2*M*K*N / 10^9) / lapAvg = (M*K*N / (5*10^8)) / lapAvg.
C6_ThroughputUsesFullCount ==
    (prog = "mm" /\ Len(out) >= 3) =>
        shown.value = RDiv(Norm(<<M * K * N, (1000 * 1000 * 1000) \div 2>>), shown.lapAvg)

InputBuffers == IF prog = "mm" THEN {"as_gpu", "bs_gpu"} ELSE {"as_gpu"}

C9_ValidatedOnceAfterTrials ==
    (variant >= 1 /\ pc \notin {"gpu_compile", "mm_upload"}) =>
        /\ nValid <= 1
        /\ nValid = 1 => laps = benchmarkingIters

\* C9 as amended: in the matrix program a block is validated once, after
\* its benchmarkingIters trials, on the output of the last trial; in
\* main_sum every trial of a block is validated, inside the trial loop,
\* right after its result has been read back.
C9_ValidationAsCoded ==
    /\ (prog = "mm" /\ variant >= 1) =>
          /\ nValid <= 1
          /\ nValid = 1 =>
                /\ laps = benchmarkingIters
                /\ readBack
                /\ lastLaunch.iter = benchmarkingIters - 1
                /\ cs = cs_gpu
          /\ pc = "done" => nValid = 1
          /\ validated = (IF pc \in {"mm_upload", "mm_exec", "mm_print", "mm_read", "mm_validate"}
                          THEN variant - 1 ELSE variant)
    /\ (prog = "sum" /\ variant >= 1) =>
          /\ nValid = (IF pc = "aborted" THEN laps + 1 ELSE laps)
          /\ pc = "gpu_check" => (readBack /\ result = result_gpu)
          /\ pc = "gpu_print" => nValid = benchmarkingIters

\* the third trial of a block of main_sum is about to start with two
\* validations made, or a block of the matrix program has been validated
C9_Witness ==
    \/ prog = "sum" /\ variant = 1 /\ pc = "gpu_write" /\ laps = 2 /\ nValid = 2
    \/ prog = "mm" /\ variant = 2 /\ pc = "mm_upload" /\ nValid = 1

\* the device buffers a block uses
DeviceBuffers ==
    IF prog = "mm" THEN {"as_gpu", "bs_gpu", "cs_gpu"} ELSE {"as_gpu", "result_gpu"}

\* C10: at the first launch of every block after the first, every device
\* buffer of the program has been written from host since the last launch
\* of the block before.
C10_BuffersRewrittenPerVariant ==
    (prog \in {"sum", "mm"} /\ lastLaunch.variant > 1 /\ lastLaunch.iter = 0) =>
        DeviceBuffers \subseteq lastLaunch.fresh

====
